---- MODULE Spec2Model ----
(***************************************************************************)
(* Model of family_C++.cpp: the Person hierarchy, displayFamily and the    *)
(* driver that populates a vector<Person*>, displays it and releases it.   *)
(*                                                                         *)
(* displayFamily takes any vector<Person*>, so the driver is modelled with *)
(* its literals as data: `program` is either the literal driver of main    *)
(* (MainProgram) or a driver of the same shape with other constructor      *)
(* arguments, roster length and number of displayFamily calls.             *)
(*                                                                         *)
(* A double is kept as the exact quotient num/den of the two ints it was   *)
(* computed from (int -> double is exact for 32-bit ints); the text that   *)
(* operator<<(double) produces is not interpreted.                         *)
(***************************************************************************)
EXTENDS Integers, Sequences, FiniteSets, TLC

VARIABLES
    program,     \* the driver's literals: constructor calls and number of displayFamily calls
    build,       \* what the build makes of signed overflow: "wrap" or "trap"
    pc,          \* position of the single thread
    family,      \* vector<Person*> family: sequence of pointers into heap
    heap,        \* objects allocated by new, by pointer
    released,    \* per pointer, how many times delete was applied to it
    i,           \* position of the range-for loop in progress
    totalAge,    \* int totalAge
    averageAge,  \* double averageAge
    out,         \* lines written to cout
    marks,       \* Len(out) at the entry of each displayFamily call
    calls,       \* displayFamily calls entered so far
    exitCode     \* value returned by main, -1 while running

vars == <<program, build, pc, family, heap, released, i, totalAge, averageAge,
          out, marks, calls, exitCode>>

-----------------------------------------------------------------------------
(* Bounds of the model *)

MaxMembers == 2

MaxCalls == 2

-----------------------------------------------------------------------------
(* int *)

INT_MAX == 2147483647

INT_MIN == -INT_MAX - 1

\* a + b leaves the range of int
Overflows(a, b) ==
    \/ b > 0 /\ a > INT_MAX - b
    \/ b < 0 /\ a < INT_MIN - b

\* two's-complement result of a + b
WrapAdd(a, b) ==
    IF b > 0 /\ a > INT_MAX - b THEN (a - INT_MAX - 1) + (b - INT_MAX - 1)
    ELSE IF b < 0 /\ a < INT_MIN - b THEN (a + INT_MAX + 1) + (b + INT_MAX + 1)
    ELSE a + b

-----------------------------------------------------------------------------
(* double *)

NoDouble == [kind |-> "none", num |-> 0, den |-> 0]

NaN == [kind |-> "nan", num |-> 0, den |-> 0]

Infinity(neg) == [kind |-> IF neg THEN "-inf" ELSE "inf", num |-> 0, den |-> 0]

\* static_cast<double>(t) / n, n a size_t
Divide(t, n) ==
    IF n = 0
    THEN IF t = 0 THEN NaN ELSE Infinity(t < 0)
    ELSE [kind |-> "finite", num |-> t, den |-> n]

-----------------------------------------------------------------------------
(* Person and its subclasses *)

Person(t, n, a) == [type |-> t, name |-> n, age |-> a]

Mother(n, a) == Person("Mother", n, a)

Father(n, a) == Person("Father", n, a)

Daughter_AsSon(n, a) == Person("Son", n, a)

Daughter(n, a) == Person("Daughter", n, a)

Son(n, a) == Person("Son", n, a)

\* new <ctor>(n, a)
New(ctor, n, a) ==
    CASE ctor = "Mother" -> Mother(n, a)
      [] ctor = "Father" -> Father(n, a)
      [] ctor = "Daughter" -> Daughter(n, a)
      [] ctor = "Son" -> Son(n, a)

TextLine(s) == [text |-> s, value |-> NoDouble]

Person_display_Swapped(p) ==
    TextLine("Type: " \o p.name \o ", Name: " \o p.type \o ", Age: " \o ToString(p.age))

Person_display(p) ==
    TextLine("Type: " \o p.type \o ", Name: " \o p.name \o ", Age: " \o ToString(p.age))

Person_getAge(p) == p.age

-----------------------------------------------------------------------------
(* The drivers *)

Call(c, n, a) == [ctor |-> c, name |-> n, age |-> a]

MainProgram ==
    [members |-> << Call("Mother", "Alice", 45), Call("Father", "Bob", 48),
                    Call("Daughter", "Charlotte", 15), Call("Son", "David", 12) >>,
     calls |-> 1]

Ctors == {"Mother", "Father", "Daughter", "Son"}

\* constructor arguments of the other drivers: (name, age) pairs, with ages
\* that are negative, small and at the top of the range of int
Arguments == {<<"Ann", -1>>, <<"Bo", 2>>, <<"Bo", 7>>, <<"Ann", INT_MAX>>}

ClientCalls == {Call(c, a[1], a[2]) : c \in Ctors, a \in Arguments}

ClientPrograms ==
    [members : UNION {[1..k -> ClientCalls] : k \in 0..MaxMembers},
     calls : 1..MaxCalls]

Programs == {MainProgram} \cup ClientPrograms

Builds == {"wrap", "trap"}

-----------------------------------------------------------------------------

Init ==
    /\ program \in Programs
    /\ build \in Builds
    /\ pc = IF program.members = <<>> THEN "call" ELSE "populate"
    /\ family = <<>>
    /\ heap = <<>>
    /\ released = <<>>
    /\ i = 1
    /\ totalAge = 0
    /\ averageAge = NoDouble
    /\ out = <<>>
    /\ marks = <<>>
    /\ calls = 0
    /\ exitCode = -1

\* the range-for loop over family has an element left
InRange == i <= Len(family)

\* family.push_back(new <ctor>(name, age))
PushBack_EarlyCall ==
    /\ pc = "populate"
    /\ Len(family) < Len(program.members)
    /\ LET c == program.members[Len(family) + 1]
       IN /\ heap' = Append(heap, New(c.ctor, c.name, c.age))
          /\ released' = Append(released, 0)
          /\ family' = Append(family, Len(heap) + 1)
    /\ pc' = "call"
    /\ UNCHANGED <<program, build, i, totalAge, averageAge, out, marks, calls, exitCode>>

PushBack ==
    /\ pc = "populate"
    /\ Len(family) < Len(program.members)
    /\ LET c == program.members[Len(family) + 1]
       IN /\ heap' = Append(heap, New(c.ctor, c.name, c.age))
          /\ released' = Append(released, 0)
          /\ family' = Append(family, Len(heap) + 1)
    /\ pc' = IF Len(family') = Len(program.members) THEN "call" ELSE "populate"
    /\ UNCHANGED <<program, build, i, totalAge, averageAge, out, marks, calls, exitCode>>

\* displayFamily(family): entry and the header line
PrintHeader ==
    /\ pc = "call"
    /\ calls' = calls + 1
    /\ marks' = Append(marks, Len(out))
    /\ out' = Append(out, TextLine("Family Members:"))
    /\ i' = 1
    /\ pc' = "render"
    /\ UNCHANGED <<program, build, family, heap, released, totalAge, averageAge, exitCode>>

\* member->display()
RenderMember ==
    /\ pc = "render"
    /\ InRange
    /\ out' = Append(out, Person_display(heap[family[i]]))
    /\ i' = i + 1
    /\ UNCHANGED <<program, build, pc, family, heap, released, totalAge, averageAge,
                   marks, calls, exitCode>>

\* int totalAge = 0
InitTotal_Static ==
    /\ pc = "render"
    /\ ~InRange
    /\ i' = 1
    /\ pc' = "sum"
    /\ UNCHANGED <<program, build, family, heap, released, totalAge, averageAge, out,
                   marks, calls, exitCode>>

InitTotal ==
    /\ pc = "render"
    /\ ~InRange
    /\ totalAge' = 0
    /\ i' = 1
    /\ pc' = "sum"
    /\ UNCHANGED <<program, build, family, heap, released, averageAge, out, marks,
                   calls, exitCode>>

\* totalAge += member->getAge()
SumMember_Overwrite ==
    /\ pc = "sum"
    /\ InRange
    /\ totalAge' = Person_getAge(heap[family[i]])
    /\ i' = i + 1
    /\ UNCHANGED <<program, build, pc, family, heap, released, averageAge, out, marks,
                   calls, exitCode>>

SumMember_Birthday ==
    /\ pc = "sum"
    /\ InRange
    /\ LET a == Person_getAge(heap[family[i]])
       IN /\ ~Overflows(totalAge, a)
          /\ totalAge' = WrapAdd(totalAge, a)
          /\ heap' = [heap EXCEPT ![family[i]].age = IF a < INT_MAX THEN a + 1 ELSE a]
    /\ i' = i + 1
    /\ UNCHANGED <<program, build, pc, family, released, averageAge, out, marks,
                   calls, exitCode>>

SumMember ==
    /\ pc = "sum"
    /\ InRange
    /\ LET a == Person_getAge(heap[family[i]])
       IN IF Overflows(totalAge, a) /\ build = "trap"
          THEN /\ pc' = "aborted"
               /\ UNCHANGED <<totalAge, i>>
          ELSE /\ totalAge' = WrapAdd(totalAge, a)
               /\ i' = i + 1
               /\ pc' = pc
    /\ UNCHANGED <<program, build, family, heap, released, averageAge, out, marks,
                   calls, exitCode>>

\* double averageAge = static_cast<double>(totalAge) / family.size()
ComputeAverage ==
    /\ pc = "sum"
    /\ ~InRange
    /\ averageAge' = Divide(totalAge, Len(family))
    /\ pc' = "print"
    /\ UNCHANGED <<program, build, family, heap, released, i, totalAge, out, marks,
                   calls, exitCode>>

\* cout << "Average Age: " << averageAge << endl, and the return to main
PrintAverage ==
    /\ pc = "print"
    /\ out' = Append(out, [text |-> "Average Age: ", value |-> averageAge])
    /\ i' = 1
    /\ pc' = IF calls < program.calls THEN "call" ELSE "delete"
    /\ UNCHANGED <<program, build, family, heap, released, totalAge, averageAge, marks,
                   calls, exitCode>>

\* delete member
DeleteMember_First ==
    /\ pc = "delete"
    /\ InRange
    /\ released' = [released EXCEPT ![family[1]] = @ + 1]
    /\ i' = i + 1
    /\ UNCHANGED <<program, build, pc, family, heap, totalAge, averageAge, out, marks,
                   calls, exitCode>>

DeleteMember ==
    /\ pc = "delete"
    /\ InRange
    /\ released' = [released EXCEPT ![family[i]] = @ + 1]
    /\ i' = i + 1
    /\ UNCHANGED <<program, build, pc, family, heap, totalAge, averageAge, out, marks,
                   calls, exitCode>>

\* return 0
ReturnMain ==
    /\ pc = "delete"
    /\ ~InRange
    /\ exitCode' = 0
    /\ pc' = "done"
    /\ UNCHANGED <<program, build, family, heap, released, i, totalAge, averageAge, out,
                   marks, calls>>

Next ==
    \/ PushBack
    \/ PrintHeader
    \/ RenderMember
    \/ InitTotal
    \/ SumMember
    \/ ComputeAverage
    \/ PrintAverage
    \/ DeleteMember
    \/ ReturnMain

Spec == Init /\ [][Next]_vars

\* one thread that runs every statement it reaches
FairSpec == Spec /\ WF_vars(Next)

-----------------------------------------------------------------------------
(* Vocabulary of the properties *)

Members == program.members

N == Len(program.members)

\* the role string the documentation fixes for each variant
RoleOf(c) ==
    CASE c = "Mother" -> "Mother"
      [] c = "Father" -> "Father"
      [] c = "Daughter" -> "Daughter"
      [] c = "Son" -> "Son"

\* "Type: <role>, Name: <name>, Age: <age>"
DescriptionLine(m) ==
    [text |-> "Type: " \o RoleOf(m.ctor) \o ", Name: " \o m.name \o ", Age: "
              \o ToString(m.age),
     value |-> NoDouble]

\* displayFamily call k has returned
Completed(k) == k < calls \/ (k = calls /\ pc \in {"call", "delete", "done"})

\* what displayFamily call k has written so far
CallOut(k) == SubSeq(out, marks[k] + 1, IF k < Len(marks) THEN marks[k + 1] ELSE Len(out))

\* member lines call k has written so far
Rendered(k) == IF k = calls /\ pc = "render" THEN i - 1 ELSE N

IsPrefix(s, t) == Len(s) <= Len(t) /\ s = SubSeq(t, 1, Len(s))

\* An integer of any size as <<hi, lo>>, hi * 65536 + lo with lo in 0..65535, so
\* that sums beyond the range of int are computed exactly.
Limbs(x) == <<x \div 65536, x % 65536>>

LimbAdd(x, y) == <<x[1] + y[1] + ((x[2] + y[2]) \div 65536), (x[2] + y[2]) % 65536>>

LimbScale(x, n) == <<x[1] * n + ((x[2] * n) \div 65536), (x[2] * n) % 65536>>

RECURSIVE ExactSum(_, _)
\* a1 + ... + ak over the first k members, as limbs
ExactSum(ms, k) == IF k = 0 THEN Limbs(0) ELSE LimbAdd(ExactSum(ms, k - 1), Limbs(ms[k].age))

-----------------------------------------------------------------------------
\* C1: for every roster with N >= 1 members, the average computed by
\* displayFamily is the non-truncated quotient of the sum of the ages by N:
\* average * N = a1 + ... + aN.
C1_ExactMean ==
    (pc = "print" /\ N >= 1) =>
        /\ averageAge.kind = "finite"
        /\ LimbScale(Limbs(averageAge.num), N) = LimbScale(ExactSum(Members, N), averageAge.den)

\* C2: the average over an empty roster is an explicit failure; no NaN or
\* infinity is produced and printed as the average, and the run does not end
\* as a success.
C2_EmptyRosterFails ==
    N = 0 =>
        /\ \A j \in 1..Len(out) : out[j].value.kind \notin {"nan", "inf", "-inf"}
        /\ pc = "done" => exitCode # 0

\* C3: each displayFamily call writes exactly N description lines after the
\* header, the j-th describing the j-th member added, in the form
\* "Type: <role>, Name: <name>, Age: <age>".
C3_RenderInOrder ==
    \A k \in 1..calls :
        LET o == CallOut(k)
        IN /\ Len(o) = 1 + Rendered(k) + (IF Completed(k) THEN 1 ELSE 0)
           /\ \A j \in 1..Rendered(k) : o[j + 1] = DescriptionLine(Members[j])
           /\ \A j \in 1..Len(o) : (o[j].value = NoDouble) <=> (j <= 1 + Rendered(k))

C3_Witness ==
    /\ pc = "sum"
    /\ calls = 1
    /\ N >= 2
    /\ Members[1] # Members[2]

\* C4: a member constructed as Mother, Father, Daughter or Son carries the
\* role string of its variant whatever its name and age, in every state, and
\* every description line written for it reports that role.
C4_RoleFixed ==
    /\ \A p \in 1..Len(heap) : heap[p].type = RoleOf(Members[p].ctor)
    /\ \A k \in 1..calls : \A j \in 1..Rendered(k) :
           IsPrefix("Type: " \o RoleOf(Members[j].ctor) \o ", Name: ", CallOut(k)[j + 1].text)

C4_Witness ==
    /\ pc = "done"
    /\ N >= 2
    /\ Members[1].ctor = "Daughter" /\ Members[2].ctor = "Daughter"
    /\ Members[1].name # Members[2].name
    /\ Members[1].age # Members[2].age

\* C5: the driver of main writes the header, then the four lines for Alice,
\* Bob, Charlotte and David in that order, and computes the average 30 from
\* the total 120 over 4 members.
C5_EndToEnd ==
    (program = MainProgram /\ pc \in {"delete", "done"}) =>
        /\ SubSeq(out, 2, 5) =
               << TextLine("Type: Mother, Name: Alice, Age: 45"),
                  TextLine("Type: Father, Name: Bob, Age: 48"),
                  TextLine("Type: Daughter, Name: Charlotte, Age: 15"),
                  TextLine("Type: Son, Name: David, Age: 12") >>
        /\ Len(out) = 6
        /\ out[1] = TextLine("Family Members:")
        /\ totalAge = 120
        /\ Len(family) = 4
        /\ averageAge.kind = "finite"
        /\ averageAge.num = 30 * averageAge.den
        /\ out[6] = [text |-> "Average Age: ", value |-> averageAge]

C5_Witness == program = MainProgram /\ pc = "done"

\* C6: on an unmodified roster every displayFamily call writes the same lines
\* and the same average as every other; a call in progress has written a
\* prefix of what the earlier calls wrote.
C6_Idempotent ==
    \A k1, k2 \in 1..calls :
        /\ (Completed(k1) /\ Completed(k2)) => CallOut(k1) = CallOut(k2)
        /\ (Completed(k1) /\ ~Completed(k2)) => IsPrefix(CallOut(k2), CallOut(k1))

C6_Witness ==
    /\ calls >= 2
    /\ Completed(2)
    /\ N >= 1
    /\ totalAge # 0

\* position of the driver in Construct -> Populate -> Render -> Aggregate -> Terminate
Rank(l) ==
    CASE l = "populate" -> 1
      [] l = "call" -> 2
      [] l = "render" -> 3
      [] l = "sum" -> 4
      [] l = "print" -> 5
      [] l = "delete" -> 6
      [] l = "done" -> 7
      [] l = "aborted" -> 0

AverageLines == {j \in 1..Len(out) : out[j].text = "Average Age: "}

C7_Order ==
    program = MainProgram =>
        /\ out # <<>> =>
               /\ Len(family) = 4
               /\ [j \in 1..4 |-> heap[family[j]].type] = <<"Mother", "Father", "Daughter", "Son">>
               /\ out[1] = TextLine("Family Members:")
        /\ Rank(pc) >= 4 =>
               /\ Len(out) >= 5
               /\ \A j \in 1..4 : out[j + 1] = Person_display(heap[family[j]])
        /\ Rank(pc) <= 5 => AverageLines = {}
        /\ Rank(pc) >= 6 => AverageLines = {6} /\ Len(out) = 6
        /\ pc # "aborted"
        /\ calls <= 1
        /\ pc = "done" <=> exitCode = 0

\* C7: the driver of main runs Construct -> Populate -> Render -> Aggregate ->
\* Terminate in that order and never backwards: one Mother, Father, Daughter
\* and Son are in the roster, in that order, before the header; every member
\* line is written before the total is accumulated; the "Average Age" line is
\* written once, last; and every run ends with main returning 0.
C7_LinearDriver ==
    /\ []C7_Order
    /\ [][program = MainProgram => Rank(pc') > Rank(pc) \/ (pc' = pc /\ pc \in {"populate", "render", "sum", "delete"})]_vars
    /\ (program = MainProgram) ~> (pc = "done" /\ exitCode = 0)

C7_Witness == program = MainProgram /\ pc = "done" /\ exitCode = 0 /\ Len(out) = 6

\* C8: delete is applied at most once to a member and never before
\* displayFamily has returned for the last time; when main returns, every
\* allocated member has been released exactly once; the driver of main always
\* gets there.
C8_ReleasedOnce ==
    /\ \A p \in 1..Len(heap) : released[p] <= 1
    /\ Len(released) = Len(heap)
    /\ \A j, k \in 1..Len(family) : family[j] = family[k] => j = k
    /\ {family[j] : j \in 1..Len(family)} = 1..Len(heap)
    /\ pc \in {"populate", "call", "render", "sum", "print", "aborted"} =>
           \A p \in 1..Len(heap) : released[p] = 0
    /\ pc = "done" => Len(heap) = N /\ \A p \in 1..Len(heap) : released[p] = 1
    /\ program = MainProgram => pc # "aborted"

C8_Witness == pc = "done" /\ Len(heap) >= 2 /\ released[1] = 1 /\ released[2] = 1

\* the values given at construction
AsConstructed(p) ==
    /\ heap[p].type = RoleOf(Members[p].ctor)
    /\ heap[p].name = Members[p].name
    /\ heap[p].age = Members[p].age

\* C9: no step of displayFamily changes the roster or a member; every member
\* keeps the role, name and age it was constructed with; the roster's sequence
\* changes only by push_back appending one member.
C9_ReadOnly ==
    /\ [](\A p \in 1..Len(heap) : AsConstructed(p))
    /\ [][/\ pc \in {"call", "render", "sum", "print"} => (family' = family /\ heap' = heap)
          /\ \A p \in 1..Len(heap) : Len(heap') >= p /\ heap'[p] = heap[p]
          /\ family' # family => (PushBack /\ SubSeq(family', 1, Len(family)) = family
                                           /\ Len(family') = Len(family) + 1)]_vars

C9_Witness ==
    /\ pc = "delete"
    /\ calls = 2
    /\ Len(family) = 2
    /\ \A p \in 1..2 : AsConstructed(p)

\* C10: after the first k members are processed, totalAge is the exact sum of
\* their ages, for every roster of 32-bit ages: the accumulation never wraps,
\* and the average is derived from the true sum.
C10_NoWraparound ==
    /\ pc = "sum" => Limbs(totalAge) = ExactSum(Members, i - 1)
    /\ pc = "print" => Limbs(totalAge) = ExactSum(Members, N)

====
